---- MODULE Spec2Model ----
(***************************************************************************)
(* Runtime type guards of BPITS.TypeGuards: the CommonTypeGuards library,  *)
(* the TypeGuardBuilder and the StrictTypeGuardBuilder that wraps it.      *)
(*                                                                         *)
(* JavaScript values are records [t, s, keys, items]: t is the runtime     *)
(* kind, s the payload of a primitive (or the validity of a Date), keys    *)
(* and items the own enumerable keys of an object and their values, in     *)
(* enumeration order (for an array, items are the elements).               *)
(***************************************************************************)
EXTENDS Integers, Sequences, FiniteSets, TLC

VARIABLES
    tgb,              \* a TypeGuardBuilder: its four private fields
    LogValueReceived, \* TypeGuardBuilder.LogValueReceived (static)
    calls,            \* number of builder calls made so far
    ev,               \* outcome of the last guard evaluation, if it was the last operation
    strict,           \* a StrictTypeGuardBuilder: its _internalBuilder
    TValidated,       \* the TValidated type argument of the chain expression
    chain,            \* the calls of the chain expression, in order
    lib,              \* a call of a CommonTypeGuards guard: its arguments and results
    built,            \* the guard build() returned, if it was called
    enumGuard,        \* an enum object, the guard memberOf made for it, its last call
    snapshot,         \* the fields the builder had when build() was called
    heap              \* builder objects, the references held to them, the calls made

vars ==
    <<tgb, LogValueReceived, calls, ev, strict, TValidated, chain, lib, built, enumGuard,
      snapshot, heap>>

\* Largest number of registration calls made on one builder.
MaxCalls == 2

----------------------------------------------------------------------------
(* JavaScript values *)

V(t, s, keys, items) == [t |-> t, s |-> s, keys |-> keys, items |-> items]

Null == V("null", "", <<>>, <<>>)
Undefined == V("undefined", "", <<>>, <<>>)
Str(s) == V("string", s, <<>>, <<>>)
Num(s) == V("number", s, <<>>, <<>>)
Bool(s) == V("boolean", s, <<>>, <<>>)
Fn == V("function", "", <<>>, <<>>)
DateOf(s) == V("date", s, <<>>, <<>>)
Arr(items) == V("array", "", <<>>, items)
Obj(keys, items) == V("object", "", keys, items)

\* typeof v
TypeOf(v) ==
    IF v.t \in {"null", "object", "array", "date"} THEN "object" ELSE v.t

\* Array.isArray(v)
IsArray(v) == v.t = "array"

\* the property names of array indices
IndexKey == <<"0", "1", "2", "3">>

\* Object.keys(v) of a value whose typeof is 'object' and that is not null
ObjectKeys(v) ==
    IF v.t = "array" THEN [i \in 1..Len(v.items) |-> IndexKey[i]] ELSE v.keys

\* Object.values(v)
ObjectValues(v) == v.items

\* v[key]: undefined when v has no such property
GetProperty(v, key) ==
    LET ks == ObjectKeys(v)
    IN IF \E i \in 1..Len(ks) : ks[i] = key
       THEN v.items[CHOOSE i \in 1..Len(ks) : ks[i] = key]
       ELSE V("undefined", "", <<>>, <<>>)

\* new Date(s).toString() !== 'Invalid Date', for the strings of the model
DateParses(s) == s \in {"2024-01-01"}

Range(f) == {f[i] : i \in DOMAIN f}

----------------------------------------------------------------------------
(* Diagnostics: the calls of console.warn *)

Redacted == Str("redacted")

ArrayMemberWarning == [kind |-> "array-member", prop |-> "", value |-> Undefined]
RootFailedWarning(value) == [kind |-> "root-failed", prop |-> "", value |-> value]
PropertyFailedWarning(key, value) == [kind |-> "property-failed", prop |-> key, value |-> value]
MissingValidatorWarning(key) == [kind |-> "missing-validator", prop |-> key, value |-> Undefined]

\* What a call of a predicate does: it returns true or false or throws, after
\* having written diags to console.warn.
Outcome(res, diags) == [res |-> res, diags |-> diags]
Returns(b) == Outcome(IF b THEN "true" ELSE "false", <<>>)

----------------------------------------------------------------------------
(* CommonTypeGuards *)

\* AllowedNullish without the default for an empty argument list
AllowedNullishAsGiven(nullishValues) == nullishValues

\* nullishValues.length ? nullishValues : [ null, undefined ]
AllowedNullish(nullishValues) ==
    IF Len(nullishValues) # 0 THEN nullishValues ELSE <<Null, Undefined>>

\* nullish with the argument list ignored
nullishOfDefaults(obj, nullishValues) == obj \in {Null, Undefined}

\* CommonTypeGuards.basics.nullish(obj, ...nullishValues)
nullish(obj, nullishValues) == obj \in Range(AllowedNullish(nullishValues))

\* The enum objects of the model: an object of string values, and the object a
\* numeric TypeScript enum compiles to, with its reverse mapping.
Priority == Obj(<<"1", "Low">>, <<Str("Low"), Num("1")>>)

Color == Obj(<<"Red", "Green">>, <<Str("red"), Str("green")>>)

EnumObject(name) == IF name = "Color" THEN Color ELSE Obj(<<>>, <<>>)

\* A library guard is [kind, arg]: arg is the element guard of arrayOf and the
\* enum object of memberOf.
Guard(kind, arg) == [kind |-> kind, arg |-> arg]

SimpleKinds == {"string", "number", "boolean", "object", "date", "dateString", "array"}

\* SimpleGuard with a date guard that tests the validity of the Date
SimpleGuardOfValidDate(kind, obj) ==
    CASE kind = "string" -> obj.t = "string"
      [] kind = "number" -> obj.t = "number"
      [] kind = "boolean" -> obj.t = "boolean"
      [] kind = "object" -> TypeOf(obj) = "object"
      [] kind = "date" -> obj.t = "date" /\ obj.s # "invalid"
      [] kind = "dateString" -> obj.t = "string" /\ DateParses(obj.s)
      [] kind = "array" -> IsArray(obj)

\* The base guards that take no argument.
SimpleGuard(kind, obj) ==
    CASE kind = "string" -> obj.t = "string"
      [] kind = "number" -> obj.t = "number"
      [] kind = "boolean" -> obj.t = "boolean"
      [] kind = "object" -> TypeOf(obj) = "object"
      [] kind = "date" -> obj.t = "date"
      [] kind = "dateString" -> obj.t = "string" /\ DateParses(obj.s)
      [] kind = "array" -> IsArray(obj)

\* obj.every(typeGuard) for an element guard that emits nothing
EveryMember(kind, items) == \A i \in 1..Len(items) : SimpleGuard(kind, items[i])

\* arrayOf with one warning for each member the element guard rejects
arrayOfWarningPerMember(kind, obj) ==
    IF ~IsArray(obj) THEN Returns(FALSE)
    ELSE LET failed == SelectSeq(obj.items, LAMBDA item : ~SimpleGuard(kind, item))
         IN Outcome(IF Len(failed) = 0 THEN "true" ELSE "false",
                    [i \in 1..Len(failed) |-> ArrayMemberWarning])

\* CommonTypeGuards.array.arrayOf(typeGuard)(obj)
arrayOf(kind, obj) ==
    IF ~IsArray(obj) THEN Returns(FALSE)
    ELSE LET membersValid == EveryMember(kind, obj.items)
         IN Outcome(IF membersValid THEN "true" ELSE "false",
                    IF ~membersValid THEN <<ArrayMemberWarning>> ELSE <<>>)

\* CommonTypeGuards.enums.memberOf(enumObject)(obj)
memberOf(enumObject, obj) ==
    LET enumValues == ObjectValues(enumObject)
    IN Returns(obj \in Range(enumValues))

\* const enumValues = Object.values(enumObject), when memberOf is called
memberOfEnumValues(enumObject) == ObjectValues(enumObject)

\* EnumValuesSeen reading the values of the enum object at each call
EnumValuesOfLiveObject(g) == ObjectValues(g.enumObject)

\* enumValues as the guard memberOf returned sees it: the array made when
\* memberOf was called
EnumValuesSeen(g) == g.enumValues

\* the guard memberOf returns, applied to obj: enumValues.includes(obj)
memberOfBaseGuard(enumValues, obj) == Returns(obj \in Range(enumValues))

\* enumObject[key] = value
SetProperty(v, key, value) ==
    IF key \in Range(v.keys)
    THEN [v EXCEPT !.items = [i \in 1..Len(v.items) |-> IF v.keys[i] = key THEN value ELSE v.items[i]]]
    ELSE [v EXCEPT !.keys = Append(@, key), !.items = Append(@, value)]

\* delete enumObject[key]
DeleteProperty(v, key) ==
    LET kept == SelectSeq([i \in 1..Len(v.keys) |-> <<v.keys[i], v.items[i]>>],
                          LAMBDA e : e[1] # key)
    IN [v EXCEPT !.keys = [i \in 1..Len(kept) |-> kept[i][1]],
                 !.items = [i \in 1..Len(kept) |-> kept[i][2]]]

\* G(obj) for a library guard G
BaseGuard(g, obj) ==
    CASE g.kind = "arrayOf" -> arrayOf(g.arg, obj)
      [] g.kind = "memberOf" -> memberOf(EnumObject(g.arg), obj)
      [] OTHER -> Returns(SimpleGuard(g.kind, obj))

\* makeNullableFunction written as the deprecated nullableX functions are:
\* the base guard first, the sentinels when it rejects
makeNullableFunctionBaseFirst(g, nullishValues, obj) ==
    LET o == BaseGuard(g, obj)
    IN IF o.res = "true" THEN o
       ELSE Outcome(IF nullish(obj, nullishValues) THEN "true" ELSE "false", o.diags)

\* CommonTypeGuards.makeNullableFunction(baseTypeGuard)(...nullishValues)(obj)
makeNullableFunction(g, nullishValues, obj) ==
    IF obj = Null \/ obj = Undefined
    THEN Returns(nullish(obj, nullishValues))
    ELSE BaseGuard(g, obj)

\* The deprecated nullableX functions: the test of the base type first, the
\* sentinels when it fails.
nullableString(nullishValues, obj) ==
    Returns(obj.t = "string" \/ nullish(obj, nullishValues))

nullableNumber(nullishValues, obj) ==
    Returns(obj.t = "number" \/ nullish(obj, nullishValues))

nullableBoolean(nullishValues, obj) ==
    Returns(obj.t = "boolean" \/ nullish(obj, nullishValues))

nullableObject(nullishValues, obj) ==
    Returns(TypeOf(obj) = "object" \/ nullish(obj, nullishValues))

\* nullableDate without the test of obj.toString() !== 'Invalid Date'
nullableDateOfAnyDate(nullishValues, obj) ==
    Returns(obj.t = "date" \/ nullish(obj, nullishValues))

nullableDate(nullishValues, obj) ==
    Returns((obj.t = "date" /\ obj.s # "invalid") \/ nullish(obj, nullishValues))

nullableDateString(nullishValues, obj) ==
    Returns((obj.t = "string" /\ DateParses(obj.s)) \/ nullish(obj, nullishValues))

nullableArray(nullishValues, obj) ==
    Returns(IsArray(obj) \/ nullish(obj, nullishValues))

nullableArrayOf(kind, nullishValues, obj) ==
    IF ~IsArray(obj) THEN Returns(nullish(obj, nullishValues))
    ELSE LET membersValid == EveryMember(kind, obj.items)
         IN Outcome(IF membersValid THEN "true" ELSE "false",
                    IF ~membersValid THEN <<ArrayMemberWarning>> ELSE <<>>)

\* The library guards that have a deprecated nullableX function.
DeprecatedKinds == SimpleKinds \cup {"arrayOf"}

NotCalled == Outcome("none", <<>>)

\* nullableX(...nullishValues)(obj) for the deprecated function of guard g
DeprecatedNullable(g, nullishValues, obj) ==
    CASE g.kind = "string" -> nullableString(nullishValues, obj)
      [] g.kind = "number" -> nullableNumber(nullishValues, obj)
      [] g.kind = "boolean" -> nullableBoolean(nullishValues, obj)
      [] g.kind = "object" -> nullableObject(nullishValues, obj)
      [] g.kind = "date" -> nullableDate(nullishValues, obj)
      [] g.kind = "dateString" -> nullableDateString(nullishValues, obj)
      [] g.kind = "array" -> nullableArray(nullishValues, obj)
      [] g.kind = "arrayOf" -> nullableArrayOf(g.arg, nullishValues, obj)
      [] OTHER -> NotCalled

----------------------------------------------------------------------------
(* TypeGuardBuilder *)

\* A Map is the sequence of its entries, in insertion order.
MapHas(m, key) == \E i \in 1..Len(m) : m[i].key = key
MapGet(m, key) == m[CHOOSE i \in 1..Len(m) : m[i].key = key].value
MapSet(m, key, value) ==
    IF MapHas(m, key)
    THEN [i \in 1..Len(m) |-> IF m[i].key = key THEN [key |-> key, value |-> value] ELSE m[i]]
    ELSE Append(m, [key |-> key, value |-> value])
MapSize(m) == Len(m)

\* new TypeGuardBuilder(rootTypeName)
NewTypeGuardBuilder ==
    [rootValidators |-> <<>>,
     validators |-> <<>>,
     suppressAllMissingValidatorWarnings |-> FALSE,
     suppressedMissingValidatorWarningProperties |-> {}]

validateRoot(b, predicate) ==
    [b EXCEPT !.rootValidators = Append(@, predicate)]

\* validateProperty replacing the predicates registered for the property
validatePropertyReplacing(b, property, predicate) ==
    [b EXCEPT !.validators = MapSet(@, property, <<predicate>>)]

validateProperty(b, property, predicate) ==
    LET previousValue == IF MapHas(b.validators, property)
                         THEN MapGet(b.validators, property) ELSE <<>>
    IN [b EXCEPT !.validators = MapSet(@, property, Append(previousValue, predicate))]

\* ignoreProperty replacing the predicates registered for the property
ignorePropertyReplacing(b, property) ==
    [b EXCEPT !.validators = MapSet(@, property, <<"ignore">>)]

ignoreProperty(b, property) ==
    LET previousValue == IF MapHas(b.validators, property)
                         THEN MapGet(b.validators, property) ELSE <<>>
    IN [b EXCEPT !.validators = MapSet(@, property, Append(previousValue, "ignore"))]

\* suppressMissingValidatorWarnings starting the suppression over when it is
\* given named keys
suppressMissingValidatorWarningsReplacing(b, properties) ==
    IF Len(properties) = 0
    THEN [b EXCEPT !.suppressAllMissingValidatorWarnings = TRUE]
    ELSE [b EXCEPT !.suppressAllMissingValidatorWarnings = FALSE,
                   !.suppressedMissingValidatorWarningProperties = Range(properties)]

\* suppressMissingValidatorWarnings setting the flag whatever its arguments
suppressMissingValidatorWarningsOfAll(b, properties) ==
    [b EXCEPT !.suppressAllMissingValidatorWarnings = TRUE]

suppressMissingValidatorWarnings(b, properties) ==
    IF Len(properties) = 0
    THEN [b EXCEPT !.suppressAllMissingValidatorWarnings = TRUE]
    ELSE [b EXCEPT !.suppressedMissingValidatorWarningProperties = @ \cup Range(properties)]

\* The builder of the guard handed to another builder as a predicate:
\* TypeGuardBuilder.start('Nested').validateProperty('a', string())
NestedBuilder == validateProperty(NewTypeGuardBuilder, "a", "string")

\* Predicates handed to a builder

\* The functions registered as predicates: library guards, the predicate
\* ignoreProperty creates ("ignore"), and a caller's predicate that throws.
\* A guard built by another builder ("nested") reads LogValueReceived (log)
\* when it is called, as every built guard does.
RECURSIVE buildTypeGuard(_, _, _)
CallPredicate(log, p, value) ==
    CASE p \in SimpleKinds -> BaseGuard(Guard(p, ""), value)
      [] p = "arrayOf(string)" -> BaseGuard(Guard("arrayOf", "string"), value)
      [] p = "ignore" -> Returns(TRUE)
      [] p = "throws" -> Outcome("throw", <<>>)
      [] p = "nested" -> LET r == buildTypeGuard(NestedBuilder, log, value)
                         IN Outcome(r.res, r.diags)

\* One entry of the trace of predicate invocations: predicate p was applied to
\* the root object (on = "root") or to the value of property on.
Invocation(on, p) == [on |-> on, pred |-> p]

Run(res, diags, invoked) == [res |-> res, diags |-> diags, invoked |-> invoked]

\* EveryFrom calling every predicate, whatever the earlier ones returned
RECURSIVE EveryFromWithoutShortCircuit(_, _, _, _, _)
EveryFromWithoutShortCircuit(log, validators, on, value, i) ==
    IF i > Len(validators) THEN Run("true", <<>>, <<>>)
    ELSE LET o == CallPredicate(log, validators[i], value)
             inv == <<Invocation(on, validators[i])>>
         IN IF o.res = "throw" THEN Run(o.res, o.diags, inv)
            ELSE LET rest == EveryFromWithoutShortCircuit(log, validators, on, value, i + 1)
                 IN Run(IF o.res = "false" /\ rest.res = "true" THEN "false" ELSE rest.res,
                        o.diags \o rest.diags, inv \o rest.invoked)

\* validators.every(v => v(value)) from element i on: stops at the first
\* predicate that returns false, and a throw leaves the loop.
RECURSIVE EveryFrom(_, _, _, _, _)
EveryFrom(log, validators, on, value, i) ==
    IF i > Len(validators) THEN Run("true", <<>>, <<>>)
    ELSE LET o == CallPredicate(log, validators[i], value)
             inv == <<Invocation(on, validators[i])>>
         IN IF o.res # "true" THEN Run(o.res, o.diags, inv)
            ELSE LET rest == EveryFrom(log, validators, on, value, i + 1)
                 IN Run(rest.res, o.diags \o rest.diags, inv \o rest.invoked)

Every(log, validators, on, value) == EveryFrom(log, validators, on, value, 1)

\* TypeGuardBuilder.LogValueReceived ? value : 'redacted'
sanitiseValueReceived(log, value) == IF log THEN value ELSE Redacted

\* LogValueReceivedRead taking the value the flag had when the guard was built
LogValueReceivedAtBuild(g, flag) == g.log

\* TypeGuardBuilder.LogValueReceived as a call of guard g reads it: the static
\* field, at the moment of the call
LogValueReceivedRead(g, flag) == flag

\* IsNonNullObject without the test of !obj
IsObjectTypeOnly(obj) == TypeOf(obj) = "object"

\* typeof obj === 'object' and obj is truthy: the guard goes on to the validators
IsNonNullObject(obj) == TypeOf(obj) = "object" /\ obj # Null

\* LoopKeys visiting the keys of obj from the last to the first
LoopKeysReversed(b, obj) ==
    LET keys == ObjectKeys(obj)
    IN [i \in 1..Len(keys) |-> keys[Len(keys) + 1 - i]]

\* LoopKeys visiting the keys of the registry instead of the keys of obj
LoopKeysOfRegistry(b, obj) == [i \in 1..Len(b.validators) |-> b.validators[i].key]

\* const objKeys = Object.keys(obj): the keys the guard's loop visits
LoopKeys(b, obj) == ObjectKeys(obj)

\* WarnsMissingValidator without the test of hasRootValidator
WarnsMissingValidatorDespiteRoot(b, hasRootValidator, key) ==
    /\ ~b.suppressAllMissingValidatorWarnings
    /\ key \notin b.suppressedMissingValidatorWarningProperties

\* the condition under which a key without validators gets its warning
WarnsMissingValidator(b, hasRootValidator, key) ==
    /\ ~hasRootValidator
    /\ ~b.suppressAllMissingValidatorWarnings
    /\ key \notin b.suppressedMissingValidatorWarningProperties

\* RejectsEmptyObject with the test of the suppression flag added
RejectsEmptyObjectUnlessSuppressed(b, objKeys, hasRootValidator) ==
    /\ Len(objKeys) = 0 /\ ~hasRootValidator /\ MapSize(b.validators) > 0
    /\ ~b.suppressAllMissingValidatorWarnings

\* RejectsEmptyObject without the test of the size of the registry
RejectsEmptyObjectWhateverRegistry(b, objKeys, hasRootValidator) ==
    Len(objKeys) = 0 /\ ~hasRootValidator

\* RejectsEmptyObject with the test after the loop left out
RejectsEmptyObjectNever(b, objKeys, hasRootValidator) == FALSE

\* the condition under which an object that passed the loop is rejected
RejectsEmptyObject(b, objKeys, hasRootValidator) ==
    Len(objKeys) = 0 /\ ~hasRootValidator /\ MapSize(b.validators) > 0

\* The for loop of the guard over objKeys, from key i on, and the return
\* statements that follow it.
RECURSIVE KeyLoop(_, _, _, _, _)
KeyLoop(b, log, obj, hasRootValidator, i) ==
    LET objKeys == LoopKeys(b, obj)
    IN IF i > Len(objKeys)
       THEN IF RejectsEmptyObject(b, objKeys, hasRootValidator)
            THEN Run("false", <<>>, <<>>)
            ELSE Run("true", <<>>, <<>>)
       ELSE LET key == objKeys[i]
            IN IF ~MapHas(b.validators, key)
               THEN LET warn == IF WarnsMissingValidator(b, hasRootValidator, key)
                                THEN <<MissingValidatorWarning(key)>> ELSE <<>>
                        rest == KeyLoop(b, log, obj, hasRootValidator, i + 1)
                    IN Run(rest.res, warn \o rest.diags, rest.invoked)
               ELSE LET value == GetProperty(obj, key)
                        r == Every(log, MapGet(b.validators, key), key, value)
                    IN CASE r.res = "throw" -> r
                         [] r.res = "false" ->
                              Run("false",
                                  Append(r.diags, PropertyFailedWarning(key, sanitiseValueReceived(log, value))),
                                  r.invoked)
                         [] OTHER ->
                              LET rest == KeyLoop(b, log, obj, hasRootValidator, i + 1)
                              IN Run(rest.res, r.diags \o rest.diags, r.invoked \o rest.invoked)

\* The guard buildTypeGuard() returns, applied to obj. The guard reads the
\* fields of the builder (this) and LogValueReceived when it is called.
buildTypeGuard(b, log, obj) ==
    IF ~IsNonNullObject(obj) THEN Run("false", <<>>, <<>>)
    ELSE LET r == Every(log, b.rootValidators, "root", obj)
         IN CASE r.res = "throw" -> r
              [] r.res = "false" ->
                   Run("false", Append(r.diags, RootFailedWarning(sanitiseValueReceived(log, obj))), r.invoked)
              [] OTHER ->
                   LET hasRootValidator == Len(b.rootValidators) > 0
                       rest == KeyLoop(b, log, obj, hasRootValidator, 1)
                   IN Run(rest.res, r.diags \o rest.diags, r.invoked \o rest.invoked)

\* BuilderAfterGuardCall for a guard that uses its root validators up
BuilderAfterGuardCallConsumingRoot(b, obj) == [b EXCEPT !.rootValidators = <<>>]

\* The fields of the builder after a call of its guard on obj: the guard
\* assigns to no field and calls no method that changes one.
BuilderAfterGuardCall(b, obj) == b

\* baseGuardNullable accepting null and undefined whatever nullishValues is
baseGuardNullableAnyNullish(b, log, nullishValues, obj) ==
    IF obj = Null \/ obj = Undefined
    THEN Run("true", <<>>, <<>>)
    ELSE buildTypeGuard(b, log, obj)

\* build().nullable(...nullishValues)(obj): baseGuard.nullable
baseGuardNullable(b, log, nullishValues, obj) ==
    IF obj = Null \/ obj = Undefined
    THEN Run(IF nullish(obj, nullishValues) THEN "true" ELSE "false", <<>>, <<>>)
    ELSE buildTypeGuard(b, log, obj)

\* build.nullable(...nullishValues)(obj): mainFunction.nullable
mainFunctionNullable(b, log, nullishValues, obj) ==
    IF obj = Null \/ obj = Undefined
    THEN Run(IF nullish(obj, nullishValues) THEN "true" ELSE "false", <<>>, <<>>)
    ELSE buildTypeGuard(b, log, obj)

----------------------------------------------------------------------------
(* StrictTypeGuardBuilder *)

\* keyof T of the schema type T the chain is started with
SchemaKeys == {"a", "b"}

\* The property types a call can be made with: TProperty extends keyof T.
PropertyTypes == SUBSET SchemaKeys \ {{}}

\* new StrictTypeGuardBuilder(rootTypeName)
NewStrictTypeGuardBuilder == [internalBuilder |-> NewTypeGuardBuilder]

\* Strict_validateRoot without the call of the internal builder
Strict_validateRootNotForwarded(s, predicate) == s

Strict_validateRoot(s, predicate) ==
    [s EXCEPT !.internalBuilder = validateRoot(@, predicate)]

Strict_validateProperty(s, property, predicate) ==
    [s EXCEPT !.internalBuilder = validateProperty(@, property, predicate)]

Strict_ignoreProperty(s, property) ==
    [s EXCEPT !.internalBuilder = ignoreProperty(@, property)]

Strict_suppressMissingValidatorWarnings(s, properties) ==
    [s EXCEPT !.internalBuilder = suppressMissingValidatorWarnings(@, properties)]

\* validateRootType returning the builder's type unchanged
validateRootTypeUnchanged(keyofT, tv) == tv

\* The TValidated argument of the types the calls return:
\* StrictTypeGuardBuilder<T, keyof T> and
\* StrictTypeGuardBuilder<T, TValidated | TProperty>.
validateRootType(keyofT, tv) == keyofT
validatePropertyType(tv, TProperty) == tv \cup TProperty
ignorePropertyType(tv, TProperty) == tv \cup TProperty

\* ValidatedBuildResult<T, TValidated>: the callable type that produces the
\* guard, or MissingPropertiesError<Exclude<keyof T, TValidated>>.
ValidatedBuildResult(keyofT, tv) ==
    IF keyofT \subseteq tv
    THEN [callable |-> TRUE, missing |-> {}]
    ELSE [callable |-> FALSE, missing |-> keyofT \ tv]

\* strictBuilder.build()(obj)
Strict_build(s, log, obj) == buildTypeGuard(s.internalBuilder, log, obj)

----------------------------------------------------------------------------
(* The calls the model makes *)

\* Property names handed to validateProperty and ignoreProperty.
PropertyKeys == {"a", "b"}

\* Predicates handed to validateRoot and to validateProperty.
RootPredicates == {"object", "string", "throws"}
PropertyPredicates == {"string", "number", "throws", "nested"}

\* Argument lists of suppressMissingValidatorWarnings.
SuppressArguments == {<<>>, <<"x">>, <<"b", "x">>}

\* Argument lists of nullable(...).
NullishLists == {<<>>, <<Null>>, <<Undefined>>, <<Null, Undefined>>}

NonObjects == {Null, Undefined, Str("s"), Num("1"), Bool("true"), Fn}

Objects ==
    {Obj(<<>>, <<>>),
     Obj(<<"a">>, <<Str("s")>>),
     Obj(<<"a">>, <<Num("1")>>),
     Obj(<<"a", "b">>, <<Str("s"), Num("1")>>),
     Obj(<<"a", "b">>, <<Num("1"), Str("s")>>),
     Obj(<<"b", "a">>, <<Str("s"), Str("s")>>),
     Obj(<<"a", "x">>, <<Str("s"), Num("1")>>),
     Obj(<<"x", "a">>, <<Num("1"), Num("1")>>),
     Obj(<<"a">>, <<Obj(<<"a">>, <<Num("1")>>)>>),
     Arr(<<>>),
     Arr(<<Str("s")>>),
     DateOf("valid")}

\* Values handed to a built guard.
Inputs == NonObjects \cup Objects

NoRun == Run("none", <<>>, <<>>)

\* ev when the last operation was no guard call
NoEvaluation ==
    [guard |-> "none", nullishValues |-> <<>>, input |-> Undefined, run |-> NoRun, accessor |-> NoRun]

NoChain == <<>>

\* built before build() is called
NoGuard == [made |-> FALSE, log |-> FALSE]

\* snapshot before build() is called
NoSnapshot == NewTypeGuardBuilder

\* heap when no builder object is under consideration
NoHeap ==
    [objects |-> <<>>, r1 |-> 0, r2 |-> 0, history |-> <<>>,
     called |-> FALSE, via |-> 0, input |-> Undefined, run |-> NoRun]

\* enumGuard when no enum object is under consideration
NoEnumGuard ==
    [enumObject |-> Obj(<<>>, <<>>), declared |-> Obj(<<>>, <<>>), created |-> FALSE,
     enumValues |-> <<>>, changes |-> 0, called |-> FALSE, input |-> Undefined,
     res |-> NotCalled]

NoLibraryCall ==
    [guard |-> Guard("none", ""), nullishValues |-> <<>>, input |-> Undefined,
     called |-> FALSE, base |-> NotCalled, nullable |-> NotCalled,
     deprecated |-> NotCalled, nullish |-> NotCalled]

----------------------------------------------------------------------------
(* A TypeGuardBuilder, the calls made on it and on the guards it builds *)

\* No guard call is under way: the caller is between two operations.
Idle == ev.guard = "none"

Init ==
    /\ tgb = NewTypeGuardBuilder
    /\ LogValueReceived = TRUE
    /\ calls = 0
    /\ ev = NoEvaluation
    /\ strict = NewStrictTypeGuardBuilder
    /\ TValidated = {}
    /\ chain = NoChain
    /\ lib = NoLibraryCall
    /\ built = NoGuard
    /\ snapshot = NoSnapshot
    /\ heap = NoHeap
    /\ enumGuard = NoEnumGuard

ValidateRoot(p) ==
    /\ Idle
    /\ calls < MaxCalls
    /\ tgb' = validateRoot(tgb, p)
    /\ calls' = calls + 1
    /\ UNCHANGED <<LogValueReceived, ev, strict, TValidated, chain, lib, built, enumGuard, snapshot, heap>>

ValidateProperty(k, p) ==
    /\ Idle
    /\ calls < MaxCalls
    /\ tgb' = validateProperty(tgb, k, p)
    /\ calls' = calls + 1
    /\ UNCHANGED <<LogValueReceived, ev, strict, TValidated, chain, lib, built, enumGuard, snapshot, heap>>

IgnoreProperty(k) ==
    /\ Idle
    /\ calls < MaxCalls
    /\ tgb' = ignoreProperty(tgb, k)
    /\ calls' = calls + 1
    /\ UNCHANGED <<LogValueReceived, ev, strict, TValidated, chain, lib, built, enumGuard, snapshot, heap>>

SuppressMissingValidatorWarnings(properties) ==
    /\ Idle
    /\ calls < MaxCalls
    /\ tgb' = suppressMissingValidatorWarnings(tgb, properties)
    /\ calls' = calls + 1
    /\ UNCHANGED <<LogValueReceived, ev, strict, TValidated, chain, lib, built, enumGuard, snapshot, heap>>

\* TypeGuardBuilder.LogValueReceived = flag
SetLogValueReceived(flag) ==
    /\ Idle
    /\ LogValueReceived # flag
    /\ LogValueReceived' = flag
    /\ UNCHANGED <<tgb, calls, ev, strict, TValidated, chain, lib, built, enumGuard, snapshot, heap>>

\* const guard = builder.build(): the value of LogValueReceived at that moment
\* is recorded next to the guard.
Build ==
    /\ Idle
    /\ built' = [made |-> TRUE, log |-> LogValueReceived]
    /\ UNCHANGED <<tgb, LogValueReceived, calls, ev, strict, TValidated, chain, lib, enumGuard, snapshot, heap>>

\* guard(obj), for the guard that build() returned
CallGuard(obj) ==
    /\ Idle
    /\ built.made
    /\ ev' = [guard |-> "build()", nullishValues |-> <<>>, input |-> obj,
              run |-> buildTypeGuard(tgb, LogValueReceivedRead(built, LogValueReceived), obj),
              accessor |-> NoRun]
    /\ tgb' = BuilderAfterGuardCall(tgb, obj)
    /\ UNCHANGED <<LogValueReceived, calls, strict, TValidated, chain, lib, built, enumGuard, snapshot, heap>>

\* builder.build().nullable(...nullishValues)(obj), then
\* builder.build.nullable(...nullishValues)(obj)
CallNullableGuards(nullishValues, obj) ==
    /\ Idle
    /\ ev' = [guard |-> "nullable", nullishValues |-> nullishValues, input |-> obj,
              run |-> baseGuardNullable(tgb, LogValueReceived, nullishValues, obj),
              accessor |-> mainFunctionNullable(tgb, LogValueReceived, nullishValues, obj)]
    /\ UNCHANGED <<tgb, LogValueReceived, calls, strict, TValidated, chain, lib, built, enumGuard, snapshot, heap>>

\* The caller has read the result and the console output of the guard call.
Resume ==
    /\ ~Idle
    /\ ev' = NoEvaluation
    /\ UNCHANGED <<tgb, LogValueReceived, calls, strict, TValidated, chain, lib, built, enumGuard, snapshot, heap>>

Next ==
    \/ \E p \in RootPredicates : ValidateRoot(p)
    \/ \E k \in PropertyKeys, p \in PropertyPredicates : ValidateProperty(k, p)
    \/ \E k \in PropertyKeys : IgnoreProperty(k)
    \/ \E properties \in SuppressArguments : SuppressMissingValidatorWarnings(properties)
    \/ \E flag \in BOOLEAN : SetLogValueReceived(flag)
    \/ Build
    \/ \E obj \in Inputs : CallGuard(obj)
    \/ \E nullishValues \in NullishLists, obj \in Inputs : CallNullableGuards(nullishValues, obj)
    \/ Resume

Spec == Init /\ [][Next]_vars

----------------------------------------------------------------------------
(* A TypeGuardBuilder that goes on receiving calls after build() *)

\* Property names handed to validateProperty and ignoreProperty: "a" is a key
\* of the schema, "x" is not (the calls are made with a cast).
BuiltPropertyKeys == {"a", "x"}

BuiltRootPredicates == {"object", "string"}
BuiltPropertyPredicates == {"string", "number"}
BuiltSuppressArguments == {<<>>, <<"x">>}

BuiltInputs ==
    {Undefined,
     Obj(<<>>, <<>>),
     Obj(<<"a">>, <<Str("s")>>),
     Obj(<<"a">>, <<Num("1")>>),
     Obj(<<"a", "x">>, <<Str("s"), Num("1")>>),
     Obj(<<"x", "a">>, <<Num("1"), Num("1")>>)}

\* const guard = builder.build(), with the registries as they are at that
\* moment kept aside for comparison.
BuildRecorded ==
    /\ Idle
    /\ built' = [made |-> TRUE, log |-> LogValueReceived]
    /\ snapshot' = tgb
    /\ UNCHANGED <<tgb, LogValueReceived, calls, ev, strict, TValidated, chain, lib, enumGuard, heap>>

BuiltNext ==
    \/ \E p \in BuiltRootPredicates : ValidateRoot(p)
    \/ \E k \in BuiltPropertyKeys, p \in BuiltPropertyPredicates : ValidateProperty(k, p)
    \/ \E k \in BuiltPropertyKeys : IgnoreProperty(k)
    \/ \E properties \in BuiltSuppressArguments : SuppressMissingValidatorWarnings(properties)
    \/ BuildRecorded
    \/ \E obj \in BuiltInputs : CallGuard(obj)
    \/ Resume

SpecBuilt == Init /\ [][BuiltNext]_vars

----------------------------------------------------------------------------
(* One builder object held by two variables *)

\* The objects of the heap: a TypeGuardBuilder has its registries, a
\* StrictTypeGuardBuilder has the reference of its _internalBuilder.
TypeGuardBuilderObject(registries) ==
    [class |-> "TypeGuardBuilder", registries |-> registries, internalBuilder |-> 0]
StrictTypeGuardBuilderObject(internalBuilder) ==
    [class |-> "StrictTypeGuardBuilder", registries |-> NoSnapshot, internalBuilder |-> internalBuilder]

\* One registration call, made through the variable via.
RefCall(via, op, property, predicate, properties) ==
    [via |-> via, op |-> op, property |-> property, predicate |-> predicate,
     properties |-> properties]

\* The body of a registration method of TypeGuardBuilder, on the fields of this.
ApplyMethod(b, call) ==
    CASE call.op = "validateRoot" -> validateRoot(b, call.predicate)
      [] call.op = "validateProperty" -> validateProperty(b, call.property, call.predicate)
      [] call.op = "ignoreProperty" -> ignoreProperty(b, call.property)
      [] call.op = "suppressMissingValidatorWarnings" ->
           suppressMissingValidatorWarnings(b, call.properties)

\* A registration method of TypeGuardBuilder that leaves this as it is and
\* returns a new builder with the call applied
TypeGuardBuilderMethodReturningCopy(objects, this, call) ==
    [objects |-> Append(objects, TypeGuardBuilderObject(ApplyMethod(objects[this].registries, call))),
     returned |-> Len(objects) + 1]

\* A registration method of TypeGuardBuilder called on the object this: it
\* assigns to the fields of this and returns this.
TypeGuardBuilderMethod(objects, this, call) ==
    [objects |-> [objects EXCEPT ![this].registries = ApplyMethod(@, call)],
     returned |-> this]

\* A registration method of StrictTypeGuardBuilder called on the object this:
\* it calls the method of this._internalBuilder, drops what that returns and
\* returns this.
StrictTypeGuardBuilderMethod(objects, this, call) ==
    [objects |-> TypeGuardBuilderMethod(objects, objects[this].internalBuilder, call).objects,
     returned |-> this]

MethodOf(objects, this, call) ==
    IF objects[this].class = "StrictTypeGuardBuilder"
    THEN StrictTypeGuardBuilderMethod(objects, this, call)
    ELSE TypeGuardBuilderMethod(objects, this, call)

\* The builder whose guard the build of the object this returns.
BuilderBehind(objects, this) ==
    IF objects[this].class = "StrictTypeGuardBuilder"
    THEN objects[objects[this].internalBuilder].registries
    ELSE objects[this].registries

\* const r1 = TypeGuardBuilder.start('T'); const r2 = r1
StartTypeGuardBuilder ==
    [NoHeap EXCEPT !.objects = <<TypeGuardBuilderObject(NewTypeGuardBuilder)>>, !.r1 = 1, !.r2 = 1]

\* const r1 = StrictTypeGuardBuilder.start('T'); const r2 = r1
StartStrictTypeGuardBuilder ==
    [NoHeap EXCEPT !.objects = <<TypeGuardBuilderObject(NewTypeGuardBuilder),
                                 StrictTypeGuardBuilderObject(1)>>,
                   !.r1 = 2, !.r2 = 2]

RefsInit ==
    /\ tgb = NewTypeGuardBuilder
    /\ LogValueReceived = TRUE
    /\ calls = 0
    /\ ev = NoEvaluation
    /\ strict = NewStrictTypeGuardBuilder
    /\ TValidated = {}
    /\ chain = NoChain
    /\ lib = NoLibraryCall
    /\ built = NoGuard
    /\ snapshot = NoSnapshot
    /\ enumGuard = NoEnumGuard
    /\ heap \in {StartTypeGuardBuilder, StartStrictTypeGuardBuilder}

\* Values handed to the guard built through a variable.
RefInputs ==
    {Obj(<<>>, <<>>),
     Obj(<<"a">>, <<Str("s")>>),
     Obj(<<"x", "a">>, <<Num("1"), Num("1")>>)}

\* The variables a statement can name: r1, r2, or none for a result dropped.
RefVariables == {1, 2}
RefTargets == {0, 1, 2}

Deref(h, variable) == IF variable = 1 THEN h.r1 ELSE h.r2

\* The heap after target = via.method(...), or after via.method(...) alone
\* when target is 0.
RefStatement(h, target, call) ==
    LET result == MethodOf(h.objects, Deref(h, call.via), call)
    IN [h EXCEPT !.objects = result.objects,
                 !.r1 = IF target = 1 THEN result.returned ELSE @,
                 !.r2 = IF target = 2 THEN result.returned ELSE @,
                 !.history = Append(@, call),
                 !.called = FALSE, !.via = 0, !.input = Undefined, !.run = NoRun]

RefValidateRoot(target, via, p) ==
    /\ Len(heap.history) < MaxCalls
    /\ heap' = RefStatement(heap, target, RefCall(via, "validateRoot", "", p, <<>>))
    /\ UNCHANGED <<tgb, LogValueReceived, calls, ev, strict, TValidated, chain, lib, built, enumGuard, snapshot>>

RefValidateProperty(target, via, k, p) ==
    /\ Len(heap.history) < MaxCalls
    /\ heap' = RefStatement(heap, target, RefCall(via, "validateProperty", k, p, <<>>))
    /\ UNCHANGED <<tgb, LogValueReceived, calls, ev, strict, TValidated, chain, lib, built, enumGuard, snapshot>>

RefIgnoreProperty(target, via, k) ==
    /\ Len(heap.history) < MaxCalls
    /\ heap' = RefStatement(heap, target, RefCall(via, "ignoreProperty", k, "", <<>>))
    /\ UNCHANGED <<tgb, LogValueReceived, calls, ev, strict, TValidated, chain, lib, built, enumGuard, snapshot>>

RefSuppressMissingValidatorWarnings(target, via, properties) ==
    /\ Len(heap.history) < MaxCalls
    /\ heap' = RefStatement(heap, target,
                            RefCall(via, "suppressMissingValidatorWarnings", "", "", properties))
    /\ UNCHANGED <<tgb, LogValueReceived, calls, ev, strict, TValidated, chain, lib, built, enumGuard, snapshot>>

\* via.build()(obj)
RefCallGuard(via, obj) ==
    /\ heap.via # via \/ heap.input # obj
    /\ heap' = [heap EXCEPT !.called = TRUE, !.via = via, !.input = obj,
                            !.run = buildTypeGuard(BuilderBehind(heap.objects, Deref(heap, via)),
                                                   LogValueReceived, obj)]
    /\ UNCHANGED <<tgb, LogValueReceived, calls, ev, strict, TValidated, chain, lib, built,
                   enumGuard, snapshot>>

RefsNext ==
    \/ \E target \in RefTargets, via \in RefVariables, p \in BuiltRootPredicates :
          RefValidateRoot(target, via, p)
    \/ \E target \in RefTargets, via \in RefVariables, k \in PropertyKeys,
          p \in BuiltPropertyPredicates : RefValidateProperty(target, via, k, p)
    \/ \E target \in RefTargets, via \in RefVariables, k \in PropertyKeys :
          RefIgnoreProperty(target, via, k)
    \/ \E target \in RefTargets, via \in RefVariables, properties \in BuiltSuppressArguments :
          RefSuppressMissingValidatorWarnings(target, via, properties)
    \/ \E via \in RefVariables, obj \in RefInputs : RefCallGuard(via, obj)

SpecRefs == RefsInit /\ [][RefsNext]_vars

----------------------------------------------------------------------------
(* A StrictTypeGuardBuilder, the calls of a chain and of the guard it builds *)

\* One call of the chain expression.
ChainCall(op, TProperty, property, predicate, properties) ==
    [op |-> op, TProperty |-> TProperty, property |-> property,
     predicate |-> predicate, properties |-> properties]

StrictIdle == ev.guard = "none" /\ Len(chain) < MaxCalls

StrictValidateRoot(p) ==
    /\ StrictIdle
    /\ strict' = Strict_validateRoot(strict, p)
    /\ TValidated' = validateRootType(SchemaKeys, TValidated)
    /\ chain' = Append(chain, ChainCall("validateRoot", {}, "", p, <<>>))
    /\ UNCHANGED <<tgb, LogValueReceived, calls, ev, lib, built, enumGuard, snapshot, heap>>

\* property is an expression of type TProperty, whose value is one of its keys
StrictValidateProperty(TProperty, k, p) ==
    /\ StrictIdle
    /\ k \in TProperty
    /\ strict' = Strict_validateProperty(strict, k, p)
    /\ TValidated' = validatePropertyType(TValidated, TProperty)
    /\ chain' = Append(chain, ChainCall("validateProperty", TProperty, k, p, <<>>))
    /\ UNCHANGED <<tgb, LogValueReceived, calls, ev, lib, built, enumGuard, snapshot, heap>>

StrictIgnoreProperty(TProperty, k) ==
    /\ StrictIdle
    /\ k \in TProperty
    /\ strict' = Strict_ignoreProperty(strict, k)
    /\ TValidated' = ignorePropertyType(TValidated, TProperty)
    /\ chain' = Append(chain, ChainCall("ignoreProperty", TProperty, k, "", <<>>))
    /\ UNCHANGED <<tgb, LogValueReceived, calls, ev, lib, built, enumGuard, snapshot, heap>>

StrictSuppressMissingValidatorWarnings(properties) ==
    /\ StrictIdle
    /\ strict' = Strict_suppressMissingValidatorWarnings(strict, properties)
    /\ chain' = Append(chain, ChainCall("suppressMissingValidatorWarnings", {}, "", "", properties))
    /\ UNCHANGED <<tgb, LogValueReceived, calls, ev, TValidated, lib, built, enumGuard, snapshot, heap>>

StrictSetLogValueReceived(flag) ==
    /\ ev.guard = "none"
    /\ LogValueReceived # flag
    /\ LogValueReceived' = flag
    /\ UNCHANGED <<tgb, calls, ev, strict, TValidated, chain, lib, built, enumGuard, snapshot, heap>>

\* chain.build()(obj): the expression compiles when the type of build is callable
StrictCallGuard(obj) ==
    /\ ev.guard = "none"
    /\ ValidatedBuildResult(SchemaKeys, TValidated).callable
    /\ ev' = [guard |-> "strict.build()", nullishValues |-> <<>>, input |-> obj,
              run |-> Strict_build(strict, LogValueReceived, obj), accessor |-> NoRun]
    /\ UNCHANGED <<tgb, LogValueReceived, calls, strict, TValidated, chain, lib, built, enumGuard, snapshot, heap>>

StrictNext ==
    \/ \E p \in RootPredicates : StrictValidateRoot(p)
    \/ \E TProperty \in PropertyTypes, k \in SchemaKeys, p \in PropertyPredicates :
          StrictValidateProperty(TProperty, k, p)
    \/ \E TProperty \in PropertyTypes, k \in SchemaKeys : StrictIgnoreProperty(TProperty, k)
    \/ \E properties \in SuppressArguments : StrictSuppressMissingValidatorWarnings(properties)
    \/ \E flag \in BOOLEAN : StrictSetLogValueReceived(flag)
    \/ \E obj \in Inputs : StrictCallGuard(obj)
    \/ Resume

SpecStrict == Init /\ [][StrictNext]_vars

----------------------------------------------------------------------------
(* CommonTypeGuards called directly *)

LibraryGuards ==
    {Guard(kind, "") : kind \in SimpleKinds}
    \cup {Guard("arrayOf", "string"), Guard("arrayOf", "number"), Guard("memberOf", "Color")}

LibraryInputs ==
    {Null, Undefined, Str("s"), Str("2024-01-01"), Str("red"), Str("Red"),
     Num("1"), Bool("true"), Fn,
     Obj(<<>>, <<>>), Obj(<<"a">>, <<Str("s")>>),
     Arr(<<>>), Arr(<<Str("s")>>), Arr(<<Str("s"), Num("1")>>), Arr(<<Null>>),
     Arr(<<Bool("true"), Null>>),
     DateOf("valid"), DateOf("invalid")}

\* The arguments of a call are chosen; nothing has been called yet.
LibInit ==
    /\ tgb = NewTypeGuardBuilder
    /\ LogValueReceived = TRUE
    /\ calls = 0
    /\ ev = NoEvaluation
    /\ strict = NewStrictTypeGuardBuilder
    /\ TValidated = {}
    /\ chain = NoChain
    /\ built = NoGuard
    /\ snapshot = NoSnapshot
    /\ heap = NoHeap
    /\ enumGuard = NoEnumGuard
    /\ \E g \in LibraryGuards, nullishValues \in NullishLists, obj \in LibraryInputs :
          lib = [guard |-> g, nullishValues |-> nullishValues, input |-> obj,
                 called |-> FALSE, base |-> NotCalled, nullable |-> NotCalled,
                 deprecated |-> NotCalled, nullish |-> NotCalled]

\* G(obj), G.nullable(...nullishValues)(obj), the deprecated
\* nullableG(...nullishValues)(obj) and nullish(obj, ...nullishValues)
CallLibraryGuards ==
    /\ ~lib.called
    /\ lib' = [lib EXCEPT !.called = TRUE,
                          !.base = BaseGuard(lib.guard, lib.input),
                          !.nullable = makeNullableFunction(lib.guard, lib.nullishValues, lib.input),
                          !.deprecated = DeprecatedNullable(lib.guard, lib.nullishValues, lib.input),
                          !.nullish = Returns(nullish(lib.input, lib.nullishValues))]
    /\ UNCHANGED <<tgb, LogValueReceived, calls, ev, strict, TValidated, chain, built, enumGuard, snapshot, heap>>

LibNext == CallLibraryGuards

SpecLib == LibInit /\ [][LibNext]_vars

----------------------------------------------------------------------------
(* An enum object, memberOf called on it, and changes of the object *)

MaxEnumChanges == 1

EnumObjects == {Color, Priority, Obj(<<>>, <<>>)}

EnumKeys == {"Red", "Blue", "Low"}

EnumInputs ==
    {Str("red"), Str("green"), Str("blue"), Str("Red"), Str("Low"), Str("1"), Num("1"),
     Null, Undefined}

EnumInit ==
    /\ tgb = NewTypeGuardBuilder
    /\ LogValueReceived = TRUE
    /\ calls = 0
    /\ ev = NoEvaluation
    /\ strict = NewStrictTypeGuardBuilder
    /\ TValidated = {}
    /\ chain = NoChain
    /\ lib = NoLibraryCall
    /\ built = NoGuard
    /\ snapshot = NoSnapshot
    /\ heap = NoHeap
    /\ \E enumObject \in EnumObjects :
          enumGuard = [NoEnumGuard EXCEPT !.enumObject = enumObject]

\* const guard = CommonTypeGuards.enums.memberOf(enumObject); declared records
\* the enum object as it is at this call.
MemberOf ==
    /\ ~enumGuard.created
    /\ enumGuard' = [enumGuard EXCEPT !.created = TRUE,
                                      !.enumValues = memberOfEnumValues(enumGuard.enumObject),
                                      !.declared = enumGuard.enumObject]
    /\ UNCHANGED <<tgb, LogValueReceived, calls, ev, strict, TValidated, chain, lib, built, snapshot, heap>>

\* enumObject[key] = value
SetEnumProperty(key, value) ==
    /\ enumGuard.changes < MaxEnumChanges
    /\ enumGuard' = [enumGuard EXCEPT !.enumObject = SetProperty(@, key, value),
                                      !.changes = @ + 1]
    /\ UNCHANGED <<tgb, LogValueReceived, calls, ev, strict, TValidated, chain, lib, built, snapshot, heap>>

\* delete enumObject[key]
DeleteEnumProperty(key) ==
    /\ enumGuard.changes < MaxEnumChanges
    /\ key \in Range(enumGuard.enumObject.keys)
    /\ enumGuard' = [enumGuard EXCEPT !.enumObject = DeleteProperty(@, key),
                                      !.changes = @ + 1]
    /\ UNCHANGED <<tgb, LogValueReceived, calls, ev, strict, TValidated, chain, lib, built, snapshot, heap>>

\* guard(obj)
CallMemberOfGuard(obj) ==
    /\ enumGuard.created
    /\ enumGuard' = [enumGuard EXCEPT !.called = TRUE,
                                      !.input = obj,
                                      !.res = memberOfBaseGuard(EnumValuesSeen(enumGuard), obj)]
    /\ UNCHANGED <<tgb, LogValueReceived, calls, ev, strict, TValidated, chain, lib, built, snapshot, heap>>

EnumNext ==
    \/ MemberOf
    \/ \E key \in EnumKeys, value \in {Str("red"), Str("blue"), Str("Red")} :
          SetEnumProperty(key, value)
    \/ \E key \in EnumKeys : DeleteEnumProperty(key)
    \/ \E obj \in EnumInputs : CallMemberOfGuard(obj)

SpecEnum == EnumInit /\ [][EnumNext]_vars

----------------------------------------------------------------------------
(* Properties of the guard a TypeGuardBuilder builds *)

\* The last operation was builder.build()(ev.input).
GuardCalled == ev.guard = "build()"

\* The result of a predicate does not depend on LogValueReceived.
Rejects(p, value) == CallPredicate(TRUE, p, value).res = "false"
Accepts(p, value) == CallPredicate(TRUE, p, value).res = "true"

SomeRootValidatorRejects(b, obj) ==
    \E i \in 1..Len(b.rootValidators) : Rejects(b.rootValidators[i], obj)

OwnKeys(obj) == Range(ObjectKeys(obj))

RegisteredKeys(b) == {b.validators[i].key : i \in 1..Len(b.validators)}

SomePropertyPredicateRejects(b, obj) ==
    \E key \in OwnKeys(obj) \cap RegisteredKeys(b) :
        \E i \in 1..Len(MapGet(b.validators, key)) :
            Rejects(MapGet(b.validators, key)[i], GetProperty(obj, key))

\* The result the decision table of the guard gives for obj.
TableResult(b, obj) ==
    CASE TypeOf(obj) # "object" \/ obj = Null -> "false"
      [] SomeRootValidatorRejects(b, obj) -> "false"
      [] SomePropertyPredicateRejects(b, obj) -> "false"
      [] OwnKeys(obj) = {} /\ Len(b.rootValidators) = 0 /\ RegisteredKeys(b) # {} -> "false"
      [] OTHER -> "true"

\* C1: for every sequence of registrations and every input, the guard returns
\* false for a non-object or null, else false if a root validator rejects,
\* else false if a predicate registered for an own key rejects that key's
\* value, else false for an object without own keys when no root validator
\* and at least one property key is registered, and true otherwise.
C1_GuardReturnsTableResult ==
    GuardCalled => ev.run.res = TableResult(tgb, ev.input)

\* The table is what the guard returns whenever it returns.
C1_TableResultWhenGuardReturns ==
    (GuardCalled /\ ev.run.res # "throw") => ev.run.res = TableResult(tgb, ev.input)

\* C2: with at least one property key registered and no root validator, the
\* guard returns false for the empty object {}.
C2_EmptyObjectRejected ==
    (/\ GuardCalled
     /\ ev.input = Obj(<<>>, <<>>)
     /\ RegisteredKeys(tgb) # {}
     /\ Len(tgb.rootValidators) = 0)
    => ev.run.res = "false"

C2_Witness ==
    /\ GuardCalled
    /\ ev.input = Obj(<<>>, <<>>)
    /\ RegisteredKeys(tgb) = {"a", "b"}
    /\ Len(tgb.rootValidators) = 0
    /\ ev.run.res = "false"

\* Every predicate registered for an own key of obj accepts the key's value.
PresentPropertiesValid(b, obj) ==
    \A key \in OwnKeys(obj) \cap RegisteredKeys(b) :
        \A i \in 1..Len(MapGet(b.validators, key)) :
            Accepts(MapGet(b.validators, key)[i], GetProperty(obj, key))

\* C3: with no root validator, an object that has own keys, valid values for
\* the registered keys it has, and lacks a registered key altogether is
\* classified true (whether or not a predicate of the absent key rejects
\* undefined).
C3_AbsentPropertyNotDetected ==
    (/\ GuardCalled
     /\ ev.input.t = "object"
     /\ Len(tgb.rootValidators) = 0
     /\ OwnKeys(ev.input) # {}
     /\ RegisteredKeys(tgb) \ OwnKeys(ev.input) # {}
     /\ PresentPropertiesValid(tgb, ev.input))
    => ev.run.res = "true"

C3_Witness ==
    /\ GuardCalled
    /\ ev.input = Obj(<<"a">>, <<Str("s")>>)
    /\ Len(tgb.rootValidators) = 0
    /\ RegisteredKeys(tgb) = {"a", "b"}
    /\ MapGet(tgb.validators, "a") = <<"string">>
    /\ MapGet(tgb.validators, "b") = <<"number">>
    /\ ev.run.res = "true"

\* C4: for an input that is not object-like or is null the guard returns
\* false, emits no diagnostic and invokes no registered predicate.
C4_NonObjectRejectedSilently ==
    (GuardCalled /\ ev.input \in NonObjects)
    => ev.run = Run("false", <<>>, <<>>)

C4_Witness ==
    /\ GuardCalled
    /\ ev.input = Null
    /\ Len(tgb.rootValidators) > 0
    /\ RegisteredKeys(tgb) # {}
    /\ ev.run = Run("false", <<>>, <<>>)

\* C5: a guard produced by build() never throws; when a registered predicate
\* throws while being evaluated the guard returns false.
C5_GuardNeverThrows ==
    GuardCalled => ev.run.res \in {"true", "false"}

\* nullishValues as a set: both sentinels when the list is empty
EffectiveSentinels(nullishValues) ==
    IF nullishValues = <<>> THEN {Null, Undefined} ELSE Range(nullishValues)

\* C10: build().nullable(S) returns true for null or undefined exactly when
\* the value is in the effective sentinel set and the result of build() on
\* every other input; build.nullable(S) returns the same as build().nullable(S).
C10_NullableBuild ==
    ev.guard = "nullable" =>
        /\ ev.input \in {Null, Undefined} =>
              ev.run.res = (IF ev.input \in EffectiveSentinels(ev.nullishValues)
                            THEN "true" ELSE "false")
        /\ ev.input \notin {Null, Undefined} =>
              ev.run.res = buildTypeGuard(tgb, LogValueReceived, ev.input).res
        /\ ev.accessor.res = ev.run.res

C10_Witness ==
    /\ ev.guard = "nullable"
    /\ ev.nullishValues = <<Undefined>>
    /\ ev.input = Null
    /\ RegisteredKeys(tgb) # {}
    /\ ev.run.res = "false"
    /\ ev.accessor.res = "false"

\* The predicate sequence registered for key, empty when there is none.
PredicatesOf(b, key) ==
    IF MapHas(b.validators, key) THEN MapGet(b.validators, key) ELSE <<>>

IsPrefix(s, t) == Len(s) <= Len(t) /\ \A i \in 1..Len(s) : s[i] = t[i]

\* Every field of the builder but the predicates of key is left as it was.
OnlyPredicatesOfChange(key) ==
    /\ tgb'.rootValidators = tgb.rootValidators
    /\ tgb'.suppressAllMissingValidatorWarnings = tgb.suppressAllMissingValidatorWarnings
    /\ tgb'.suppressedMissingValidatorWarningProperties =
          tgb.suppressedMissingValidatorWarningProperties
    /\ \A other \in PropertyKeys \ {key} : PredicatesOf(tgb', other) = PredicatesOf(tgb, other)

ThrowingPredicateRegistered(b) ==
    \/ "throws" \in Range(b.rootValidators)
    \/ \E i \in 1..Len(b.validators) : "throws" \in Range(b.validators[i].value)

\* The guard was called on an object that has key, key has the predicate of
\* ignoreProperty among its predicates, next to one that rejects the value.
IgnoredKeyFailsPredicate(key) ==
    /\ GuardCalled
    /\ IsNonNullObject(ev.input)
    /\ key \in OwnKeys(ev.input)
    /\ "ignore" \in Range(PredicatesOf(tgb, key))
    /\ \E p \in Range(PredicatesOf(tgb, key)) : Rejects(p, GetProperty(ev.input, key))

\* C13: ignoreProperty(key) appends a predicate that accepts every value to the
\* sequence of key, as validateProperty(key, alwaysTrue) does, and changes
\* nothing else; no call removes or reorders the predicates of a key; so a
\* guard whose key has both p and the predicate of ignoreProperty, in either
\* order, never accepts an input whose value for key fails p, and returns false
\* on it (when no registered predicate throws).
C13_IgnorePropertyAppendsAlwaysTrue ==
    /\ [](\A value \in Inputs : Accepts("ignore", value))
    /\ [][\A key \in PropertyKeys :
            IgnoreProperty(key) =>
                /\ PredicatesOf(tgb', key) = Append(PredicatesOf(tgb, key), "ignore")
                /\ tgb' = validateProperty(tgb, key, "ignore")
                /\ OnlyPredicatesOfChange(key)]_vars
    /\ [][\A key \in PropertyKeys : IsPrefix(PredicatesOf(tgb, key), PredicatesOf(tgb', key))]_vars
    /\ [](\A key \in PropertyKeys :
            IgnoredKeyFailsPredicate(key) =>
                /\ ev.run.res # "true"
                /\ ~ThrowingPredicateRegistered(tgb) => ev.run.res = "false")

C13_Witness ==
    /\ IgnoredKeyFailsPredicate("a")
    /\ PredicatesOf(tgb, "a") = <<"ignore", "string">>
    /\ ev.input = Obj(<<"a">>, <<Num("1")>>)
    /\ ev.run.res = "false"

\* The predicates the guard invoked on the value of key, in invocation order.
InvokedOn(run, key) ==
    LET s == SelectSeq(run.invoked, LAMBDA x : x.on = key)
    IN [i \in 1..Len(s) |-> s[i].pred]

\* C14: validateProperty(key, p) appends p to the sequence of key and changes
\* nothing else; the guard invokes the predicates of a key in registration
\* order, invokes none after one that did not accept the value, and returns
\* true only if every predicate of every key the input has accepts its value.
C14_ValidatePropertyAppends ==
    /\ [][\A key \in PropertyKeys, p \in PropertyPredicates :
            ValidateProperty(key, p) =>
                /\ PredicatesOf(tgb', key) = Append(PredicatesOf(tgb, key), p)
                /\ OnlyPredicatesOfChange(key)]_vars
    /\ [](GuardCalled =>
            \A key \in PropertyKeys :
                LET ps == PredicatesOf(tgb, key)
                    inv == InvokedOn(ev.run, key)
                    value == GetProperty(ev.input, key)
                IN /\ IsPrefix(inv, ps)
                   /\ \A i \in 1..Len(inv) : \A j \in 1..(i - 1) : Accepts(ps[j], value)
                   /\ (ev.run.res = "true" /\ key \in OwnKeys(ev.input)) =>
                         /\ inv = ps
                         /\ \A i \in 1..Len(ps) : Accepts(ps[i], value))

C14_Witness ==
    /\ GuardCalled
    /\ PredicatesOf(tgb, "a") = <<"string", "number">>
    /\ ev.input = Obj(<<"a">>, <<Num("1")>>)
    /\ InvokedOn(ev.run, "a") = <<"string">>
    /\ ev.run.res = "false"

DiagnosticsOfKind(run, kinds) == SelectSeq(run.diags, LAMBDA d : d.kind \in kinds)

\* Index, in Object.keys(obj), of the first key one of whose predicates does not
\* accept its value: the loop of the guard ends there. Past the last key when
\* there is none.
StopIndex(b, obj) ==
    LET keys == ObjectKeys(obj)
        stops == {i \in 1..Len(keys) :
                    \E p \in Range(PredicatesOf(b, keys[i])) : ~Accepts(p, GetProperty(obj, keys[i]))}
    IN IF stops = {} THEN Len(keys) + 1 ELSE CHOOSE i \in stops : \A j \in stops : i <= j

\* The own keys of obj the guard enumerates before it stops that have no
\* predicate and are not cancelled by the suppression set, in enumeration
\* order; none when a root validator is registered.
KeysToWarnAbout(b, obj) ==
    IF ~IsNonNullObject(obj) \/ Len(b.rootValidators) > 0 THEN <<>>
    ELSE LET keys == ObjectKeys(obj)
             warned == SelectSeq([i \in 1..Len(keys) |-> i],
                                 LAMBDA i : /\ i < StopIndex(b, obj)
                                            /\ ~MapHas(b.validators, keys[i])
                                            /\ ~b.suppressAllMissingValidatorWarnings
                                            /\ keys[i] \notin b.suppressedMissingValidatorWarningProperties)
         IN [j \in 1..Len(warned) |-> keys[warned[j]]]

\* C18: a call of the guard emits exactly one missing-validator diagnostic for
\* each own key of the input that has no predicate, is not cancelled by the
\* suppression set and is enumerated before the evaluation stops, and none for
\* any other key; none at all when a root validator is registered, so that a
\* guard whose only validator is a root validator that accepts emits nothing
\* on an input with unregistered properties.
C18_MissingValidatorDiagnostics ==
    GuardCalled =>
        LET missing == DiagnosticsOfKind(ev.run, {"missing-validator"})
            expected == KeysToWarnAbout(tgb, ev.input)
        IN /\ missing = [j \in 1..Len(expected) |-> MissingValidatorWarning(expected[j])]
           /\ Len(tgb.rootValidators) > 0 => missing = <<>>
           /\ (/\ tgb.rootValidators = <<"object">>
               /\ tgb.validators = <<>>
               /\ IsNonNullObject(ev.input)) => ev.run = Run("true", <<>>, <<Invocation("root", "object")>>)

C18_Witness ==
    /\ GuardCalled
    /\ tgb.rootValidators = <<"object">>
    /\ tgb.validators = <<>>
    /\ ev.input = Obj(<<"a", "x">>, <<Str("s"), Num("1")>>)
    /\ ev.run.diags = <<>>
    /\ ev.run.res = "true"

\* The value a predicate invoked on the root or on a property was given.
ValueOn(obj, on) == IF on = "root" THEN obj ELSE GetProperty(obj, on)

\* The last predicate the guard invoked rejected the value it was given.
LastInvokedRejects ==
    /\ GuardCalled
    /\ ev.run.invoked # <<>>
    /\ LET last == ev.run.invoked[Len(ev.run.invoked)]
       IN Rejects(last.pred, ValueOn(ev.input, last.on))

\* C19: suppressMissingValidatorWarnings() sets the suppress-all flag, and then
\* no missing-validator diagnostic is emitted for any key; with named keys it
\* adds exactly those keys to the suppression set, and then the diagnostic is
\* withheld for those keys and emitted for the others as before; in both cases
\* a predicate that rejects its value still gets its validation-failure
\* diagnostic.
C19_SuppressMissingValidatorWarnings ==
    /\ [][\A properties \in SuppressArguments :
            SuppressMissingValidatorWarnings(properties) =>
                /\ tgb'.rootValidators = tgb.rootValidators
                /\ tgb'.validators = tgb.validators
                /\ tgb'.suppressAllMissingValidatorWarnings =
                      (tgb.suppressAllMissingValidatorWarnings \/ properties = <<>>)
                /\ tgb'.suppressedMissingValidatorWarningProperties =
                      tgb.suppressedMissingValidatorWarningProperties \cup Range(properties)]_vars
    /\ [](GuardCalled =>
            LET missing == DiagnosticsOfKind(ev.run, {"missing-validator"})
            IN /\ tgb.suppressAllMissingValidatorWarnings => missing = <<>>
               /\ \A i \in 1..Len(missing) :
                     missing[i].prop \notin tgb.suppressedMissingValidatorWarningProperties
               /\ \A key \in Range(KeysToWarnAbout(tgb, ev.input)) :
                     MissingValidatorWarning(key) \in Range(missing))
    /\ [](LastInvokedRejects =>
            LET last == ev.run.invoked[Len(ev.run.invoked)]
                failure == ev.run.diags[Len(ev.run.diags)]
            IN /\ ev.run.diags # <<>>
               /\ ev.run.res = "false"
               /\ failure.kind = (IF last.on = "root" THEN "root-failed" ELSE "property-failed")
               /\ failure.prop = (IF last.on = "root" THEN "" ELSE last.on))

C19_Witness ==
    /\ LastInvokedRejects
    /\ tgb.suppressedMissingValidatorWarningProperties = {"x"}
    /\ ~tgb.suppressAllMissingValidatorWarnings
    /\ ev.input = Obj(<<"x", "a">>, <<Num("1"), Num("1")>>)
    /\ ev.run.diags = <<PropertyFailedWarning("a", sanitiseValueReceived(LogValueReceived, Num("1")))>>

\* The values a validation-failure diagnostic of a call on obj can be about:
\* obj, the value of one of its properties, or, for the diagnostic of a nested
\* guard, the value of a property of one of these.
OffendingValue(obj, d) ==
    IF d.kind = "root-failed" THEN {obj}
    ELSE {GetProperty(obj, d.prop)}
         \cup {GetProperty(GetProperty(obj, key), d.prop) : key \in OwnKeys(obj)}

\* C20: when LogValueReceived is false every validation-failure diagnostic,
\* of the root, of a property or of a nested guard, carries 'redacted' and not
\* the value; when it is true it carries the value; the flag that counts is
\* the one at the call of the guard, whatever it was when the guard was built.
C20_LogValueReceived ==
    GuardCalled =>
        LET failures == DiagnosticsOfKind(ev.run, {"root-failed", "property-failed"})
        IN \A i \in 1..Len(failures) :
              /\ ~LogValueReceived => failures[i].value = Redacted
              /\ LogValueReceived =>
                    /\ failures[i].value # Redacted
                    /\ failures[i].value \in OffendingValue(ev.input, failures[i])
              /\ i = Len(failures) =>
                    failures[i].value =
                        sanitiseValueReceived(LogValueReceived,
                            IF failures[i].kind = "root-failed" THEN ev.input
                            ELSE GetProperty(ev.input, failures[i].prop))

C20_Witness ==
    /\ GuardCalled
    /\ built.log
    /\ ~LogValueReceived
    /\ PredicatesOf(tgb, "a") = <<"nested">>
    /\ ev.input = Obj(<<"a">>, <<Obj(<<"a">>, <<Num("1")>>)>>)
    /\ ev.run.diags = <<PropertyFailedWarning("a", Redacted), PropertyFailedWarning("a", Redacted)>>

\* The builder with another suppression flag and set.
WithSuppression(b, flag, properties) ==
    [b EXCEPT !.suppressAllMissingValidatorWarnings = flag,
              !.suppressedMissingValidatorWarningProperties = properties]

\* C21: the result of a guard call is the result of the guard of a builder
\* that received the same validateRoot, validateProperty and ignoreProperty
\* calls, whatever the suppression flag and set of that builder and whatever
\* LogValueReceived is when it is called.
C21_DiagnosticsObservational ==
    GuardCalled =>
        \A log \in BOOLEAN, flag \in BOOLEAN, properties \in {{}, {"x"}, {"a", "b", "x"}} :
            buildTypeGuard(WithSuppression(tgb, flag, properties), log, ev.input).res = ev.run.res

C21_Witness ==
    /\ GuardCalled
    /\ tgb.suppressAllMissingValidatorWarnings
    /\ ~LogValueReceived
    /\ RegisteredKeys(tgb) = {"a"}
    /\ ev.input = Obj(<<>>, <<>>)
    /\ ev.run.res = "false"
    /\ buildTypeGuard(WithSuppression(tgb, FALSE, {}), TRUE, ev.input).res = "false"

\* C23: with no root validator, an object that has own keys and lacks a
\* registered key one of whose predicates rejects undefined is classified
\* false.
C23_AbsentPropertyDetected ==
    (/\ GuardCalled
     /\ IsNonNullObject(ev.input)
     /\ Len(tgb.rootValidators) = 0
     /\ OwnKeys(ev.input) # {}
     /\ \E key \in RegisteredKeys(tgb) \ OwnKeys(ev.input) :
           \E p \in Range(PredicatesOf(tgb, key)) : Rejects(p, Undefined))
    => ev.run.res = "false"

\* Position of key in Object.keys(obj); 0 for "root".
KeyIndex(obj, key) ==
    LET keys == ObjectKeys(obj)
    IN IF key \in Range(keys) THEN CHOOSE i \in 1..Len(keys) : keys[i] = key ELSE 0

\* The last predicate the guard invoked was applied to a property and
\* rejected it.
PropertyRejected == LastInvokedRejects /\ ev.run.invoked[Len(ev.run.invoked)].on # "root"

\* The last predicate the guard invoked was applied to the root and rejected it.
RootRejected == LastInvokedRejects /\ ev.run.invoked[Len(ev.run.invoked)].on = "root"

MissingValidatorWarnings(keys) == [j \in 1..Len(keys) |-> MissingValidatorWarning(keys[j])]

\* C25: the guard visits the keys of the input in their enumeration order;
\* when a predicate of a key rejects its value, that key is the first of the
\* input with a predicate that does not accept, the result is false, the
\* diagnostics end with the one validation-failure diagnostic of that key, and
\* for the later keys no predicate is invoked and nothing is emitted.
C25_PropertyShortCircuit ==
    /\ GuardCalled =>
          \A i, j \in 1..Len(ev.run.invoked) :
              i < j => KeyIndex(ev.input, ev.run.invoked[i].on) <= KeyIndex(ev.input, ev.run.invoked[j].on)
    /\ PropertyRejected =>
          LET last == ev.run.invoked[Len(ev.run.invoked)]
              value == GetProperty(ev.input, last.on)
              log == LogValueReceived
          IN /\ KeyIndex(ev.input, last.on) = StopIndex(tgb, ev.input)
             /\ ev.run.res = "false"
             /\ ev.run.diags =
                   MissingValidatorWarnings(KeysToWarnAbout(tgb, ev.input))
                   \o CallPredicate(log, last.pred, value).diags
                   \o <<PropertyFailedWarning(last.on, sanitiseValueReceived(log, value))>>
             /\ \A i \in 1..Len(ev.run.invoked) :
                   KeyIndex(ev.input, ev.run.invoked[i].on) <= KeyIndex(ev.input, last.on)

C25_Witness ==
    /\ PropertyRejected
    /\ PredicatesOf(tgb, "a") = <<"string">>
    /\ PredicatesOf(tgb, "b") = <<"number">>
    /\ ev.input = Obj(<<"a", "b">>, <<Num("1"), Str("s")>>)
    /\ ev.run.invoked = <<Invocation("a", "string")>>
    /\ Len(ev.run.diags) = 1

\* C26: the guard invokes the root validators in registration order and
\* before any property predicate; when a root validator rejects the input, the
\* later root validators and the property predicates are not invoked, the
\* result is false, and the one diagnostic emitted is the validation-failure
\* diagnostic of the root.
C26_RootShortCircuit ==
    /\ GuardCalled =>
          LET onRoot == InvokedOn(ev.run, "root")
          IN /\ IsPrefix(onRoot, tgb.rootValidators)
             /\ \A i \in 1..Len(ev.run.invoked) :
                   ev.run.invoked[i].on = "root" <=> i <= Len(onRoot)
             /\ Len(ev.run.invoked) > Len(onRoot) => onRoot = tgb.rootValidators
    /\ RootRejected =>
          LET n == Len(ev.run.invoked)
          IN /\ ev.run.invoked = [i \in 1..n |-> Invocation("root", tgb.rootValidators[i])]
             /\ \A i \in 1..(n - 1) : Accepts(tgb.rootValidators[i], ev.input)
             /\ ev.run.res = "false"
             /\ ev.run.diags =
                   <<RootFailedWarning(sanitiseValueReceived(LogValueReceived, ev.input))>>

C26_Witness ==
    /\ RootRejected
    /\ tgb.rootValidators = <<"string", "object">>
    /\ ev.input = Obj(<<"a", "x">>, <<Str("s"), Num("1")>>)
    /\ ev.run.invoked = <<Invocation("root", "string")>>

FailureCount(diags) ==
    Len(SelectSeq(diags, LAMBDA d : d.kind \in {"root-failed", "property-failed"}))

\* Number of validation-failure diagnostics the predicates invoked by the
\* guard emitted themselves, up to invocation n.
RECURSIVE FailureCountOfPredicates(_)
FailureCountOfPredicates(n) ==
    IF n = 0 THEN 0
    ELSE LET inv == ev.run.invoked[n]
         IN FailureCountOfPredicates(n - 1)
            + FailureCount(CallPredicate(LogValueReceived, inv.pred, ValueOn(ev.input, inv.on)).diags)

\* Number of validation-failure diagnostics the guard emitted itself.
OwnFailureCount ==
    FailureCount(ev.run.diags) - FailureCountOfPredicates(Len(ev.run.invoked))

\* The rejection of an object without own keys by a guard with registered keys
\* and no root validator.
EmptyObjectRejection ==
    /\ OwnKeys(ev.input) = {}
    /\ Len(tgb.rootValidators) = 0
    /\ RegisteredKeys(tgb) # {}

\* C29: a call of the guard emits at most one validation-failure diagnostic of
\* its own, and one only when it returns false; a false result on an object
\* that is not null comes with exactly one, except for the rejection of the
\* empty object, which comes with none.
C29_OneFailureDiagnostic ==
    GuardCalled =>
        /\ OwnFailureCount \in {0, 1}
        /\ OwnFailureCount = 1 => ev.run.res = "false"
        /\ ev.run.res = "true" => OwnFailureCount = 0
        /\ (ev.run.res = "false" /\ IsNonNullObject(ev.input)) =>
              OwnFailureCount = (IF EmptyObjectRejection THEN 0 ELSE 1)

C29_Witness ==
    /\ GuardCalled
    /\ PredicatesOf(tgb, "a") = <<"nested">>
    /\ ev.input = Obj(<<"a">>, <<Obj(<<"a">>, <<Num("1")>>)>>)
    /\ ev.run.res = "false"
    /\ Len(ev.run.diags) = 2
    /\ OwnFailureCount = 1

\* C30: the suppression flag, once set by suppressMissingValidatorWarnings(),
\* stays set, and a key once named stays in the suppression set, whatever is
\* called on the builder afterwards; while the flag is set no guard call emits
\* a missing-validator diagnostic, and no guard call emits one for a key of
\* the set.
C30_SuppressionMonotone ==
    /\ [][SuppressMissingValidatorWarnings(<<>>) => tgb'.suppressAllMissingValidatorWarnings]_vars
    /\ [][\A properties \in SuppressArguments \ {<<>>} :
            SuppressMissingValidatorWarnings(properties) =>
                Range(properties) \subseteq tgb'.suppressedMissingValidatorWarningProperties]_vars
    /\ [][/\ tgb.suppressAllMissingValidatorWarnings => tgb'.suppressAllMissingValidatorWarnings
          /\ tgb.suppressedMissingValidatorWarningProperties
                \subseteq tgb'.suppressedMissingValidatorWarningProperties]_vars
    /\ [](GuardCalled =>
            LET missing == DiagnosticsOfKind(ev.run, {"missing-validator"})
            IN /\ tgb.suppressAllMissingValidatorWarnings => missing = <<>>
               /\ \A i \in 1..Len(missing) :
                     missing[i].prop \notin tgb.suppressedMissingValidatorWarningProperties)

C30_Witness ==
    /\ GuardCalled
    /\ tgb.suppressAllMissingValidatorWarnings
    /\ tgb.suppressedMissingValidatorWarningProperties = {"x"}
    /\ ev.input = Obj(<<"a", "x">>, <<Str("s"), Num("1")>>)
    /\ ev.run = Run("true", <<>>, <<>>)

----------------------------------------------------------------------------
(* Properties of a guard whose builder is used after build() *)

\* C22: a produced guard is immutable: build() snapshots the registries, so
\* the result and the diagnostics of the guard, for every input, are those of
\* the registries as they were when build() was called, whatever
\* validateRoot, validateProperty, ignoreProperty or
\* suppressMissingValidatorWarnings calls were made on the builder since.
C22_GuardOfRegistriesAtBuild ==
    GuardCalled =>
        LET atBuild == buildTypeGuard(snapshot, LogValueReceivedRead(built, LogValueReceived), ev.input)
        IN /\ ev.run.res = atBuild.res
           /\ ev.run.diags = atBuild.diags

\* The builder without the entry of a key in its property registry.
WithoutRegistration(b, key) ==
    [b EXCEPT !.validators = SelectSeq(@, LAMBDA entry : entry.key # key)]

\* C24: a registration for a key the schema does not declare is irrelevant to
\* evaluation: for every input the guard returns the same boolean as the
\* guard built without that registration.
C24_UndeclaredKeyIrrelevant ==
    GuardCalled =>
        \A key \in RegisteredKeys(tgb) \ SchemaKeys :
            buildTypeGuard(WithoutRegistration(tgb, key),
                           LogValueReceivedRead(built, LogValueReceived), ev.input).res = ev.run.res

----------------------------------------------------------------------------
(* Properties of the nullable variants of the library guards *)

\* C8: G.nullable(S)(s) is true for every s of the effective sentinel set, and
\* G.nullable(S)(x) equals G(x) for every x outside it, null and undefined
\* included when S does not list them.
C8_NullableEqualsBaseOutsideSentinels ==
    lib.called =>
        /\ lib.input \in EffectiveSentinels(lib.nullishValues) => lib.nullable.res = "true"
        /\ lib.input \notin EffectiveSentinels(lib.nullishValues) => lib.nullable.res = lib.base.res

\* C8 as amended: G.nullable(S)(s) is true for every s of the effective
\* sentinel set, G.nullable(S)(x) equals G(x) for every x that is neither null
\* nor undefined, and G.nullable(S) rejects a null or undefined that S does not
\* list, whatever G says of it.
C8_NullableRejectsUnlistedSentinel ==
    lib.called =>
        /\ lib.input \in EffectiveSentinels(lib.nullishValues) => lib.nullable.res = "true"
        /\ lib.input \notin {Null, Undefined} => lib.nullable = lib.base
        /\ lib.input \in {Null, Undefined} \ EffectiveSentinels(lib.nullishValues) =>
              lib.nullable.res = "false"

C8_Witness ==
    /\ lib.called
    /\ lib.guard = Guard("object", "")
    /\ lib.nullishValues = <<Undefined>>
    /\ lib.input = Null
    /\ lib.base.res = "true"
    /\ lib.nullable.res = "false"

\* C9: for every library guard G, object included, G.nullable(null) rejects
\* undefined, G.nullable(undefined) rejects null, and G.nullable() and
\* G.nullable(null, undefined) accept both.
C9_NullableSentinelChoice ==
    (lib.called /\ lib.input \in {Null, Undefined}) =>
        /\ lib.nullishValues = <<Null>> =>
              lib.nullable.res = (IF lib.input = Undefined THEN "false" ELSE "true")
        /\ lib.nullishValues = <<Undefined>> =>
              lib.nullable.res = (IF lib.input = Null THEN "false" ELSE "true")
        /\ lib.nullishValues \in {<<>>, <<Null, Undefined>>} => lib.nullable.res = "true"

C9_Witness ==
    /\ lib.called
    /\ lib.guard = Guard("string", "")
    /\ lib.nullishValues = <<Null>>
    /\ lib.input = Undefined
    /\ lib.nullable.res = "false"

\* C11: for every kind X that has a deprecated function, every sentinel list
\* S and every input x, nullableX(S)(x) returns the same boolean as
\* X().nullable(S)(x).
C11_DeprecatedEqualsNullable ==
    (lib.called /\ lib.guard.kind \in DeprecatedKinds) =>
        lib.deprecated.res = lib.nullable.res

\* null handed to the object guard with a sentinel list that leaves null out
UnlistedNullOfObject ==
    /\ lib.guard.kind = "object"
    /\ lib.input = Null
    /\ Null \notin EffectiveSentinels(lib.nullishValues)

\* a Date in the Invalid Date state handed to the date guard
InvalidDateOfDate == lib.guard.kind = "date" /\ lib.input = DateOf("invalid")

\* C11 as amended: nullableX(S)(x) returns the same boolean as
\* X().nullable(S)(x), except that nullableObject(S) accepts a null that S
\* does not list while object().nullable(S) rejects it, and that nullableDate(S)
\* rejects a Date in the Invalid Date state while date().nullable(S) accepts it.
C11_DeprecatedEqualsNullableButObjectNullAndInvalidDate ==
    (lib.called /\ lib.guard.kind \in DeprecatedKinds) =>
        /\ UnlistedNullOfObject =>
              lib.deprecated.res = "true" /\ lib.nullable.res = "false"
        /\ InvalidDateOfDate =>
              lib.deprecated.res = "false" /\ lib.nullable.res = "true"
        /\ (~UnlistedNullOfObject /\ ~InvalidDateOfDate) =>
              lib.deprecated.res = lib.nullable.res

C11_Witness ==
    /\ lib.called
    /\ InvalidDateOfDate
    /\ lib.nullishValues = <<Null>>
    /\ lib.deprecated.res = "false"
    /\ lib.nullable.res = "true"

\* C12: nullish(value, sentinels...) returns, and returns true exactly when
\* value is one of the allowed sentinels: null and undefined when no sentinel
\* is passed, the passed sentinels otherwise; it emits no diagnostic.
C12_NullishIffAllowedSentinel ==
    lib.called =>
        /\ lib.nullish.res \in {"true", "false"}
        /\ lib.nullish.res = "true" <=>
              \/ lib.nullishValues = <<>> /\ lib.input \in {Null, Undefined}
              \/ \E i \in 1..Len(lib.nullishValues) : lib.input = lib.nullishValues[i]
        /\ lib.nullish.diags = <<>>

C12_Witness ==
    /\ lib.called
    /\ lib.nullishValues = <<>>
    /\ lib.input = Undefined
    /\ lib.nullish.res = "true"

\* The element guard g of arrayOf(g) rejects a member of the array v.
SomeMemberRejected(g, v) ==
    \E i \in 1..Len(v.items) : ~SimpleGuard(g, v.items[i])

\* C15: arrayOf(g)(v) returns true exactly when v is an array and g accepts
\* every element, the empty array included, and then emits nothing; when v is
\* an array with a rejected element, and g emits nothing, it returns false and
\* emits exactly one diagnostic, which names no index; when v is not an array
\* it returns false and emits nothing.
C15_ArrayOf ==
    (lib.called /\ lib.guard.kind = "arrayOf") =>
        /\ lib.base.res \in {"true", "false"}
        /\ lib.base.res = "true" <=>
              (IsArray(lib.input) /\ ~SomeMemberRejected(lib.guard.arg, lib.input))
        /\ lib.base.res = "true" => lib.base.diags = <<>>
        /\ (IsArray(lib.input) /\ SomeMemberRejected(lib.guard.arg, lib.input)) =>
              /\ lib.base.res = "false"
              /\ Len(lib.base.diags) = 1
              /\ lib.base.diags[1].kind = "array-member"
              /\ lib.base.diags[1].prop = ""
              /\ lib.base.diags[1].value = Undefined
        /\ ~IsArray(lib.input) => lib.base = Returns(FALSE)

C15_Witness ==
    /\ lib.called
    /\ lib.guard = Guard("arrayOf", "string")
    /\ lib.input = Arr(<<Bool("true"), Null>>)
    /\ lib.base = Outcome("false", <<ArrayMemberWarning>>)

\* C17: date() accepts a value only if it is a Date that is valid; a Date in
\* the Invalid Date state is rejected.
C17_DateRejectsInvalidDate ==
    (lib.called /\ lib.guard.kind = "date") =>
        (lib.base.res = "true" <=> lib.input = DateOf("valid"))

\* C17 as amended: date() accepts a value exactly when it is a Date object,
\* whatever its state: a Date in the Invalid Date state is accepted.
C17_DateAcceptsEveryDateObject ==
    (lib.called /\ lib.guard.kind = "date") =>
        /\ lib.base.res = "true" <=> lib.input \in {DateOf("valid"), DateOf("invalid")}
        /\ lib.base.res \in {"true", "false"}
        /\ lib.base.diags = <<>>

C17_Witness ==
    /\ lib.called
    /\ lib.guard.kind = "date"
    /\ lib.input = DateOf("invalid")
    /\ lib.base.res = "true"

\* The values and the key names the enum object had when memberOf was called.
DeclaredValues == Range(ObjectValues(enumGuard.declared))
DeclaredKeyNames == {Str(enumGuard.declared.keys[i]) : i \in 1..Len(enumGuard.declared.keys)}

\* C16: memberOf(E)(v) returns true exactly when v is one of the values E had
\* when memberOf(E) was called, whatever was changed in E afterwards, and
\* emits nothing; a key name of E that is not also one of those values is
\* rejected.
C16_MemberOfDeclaredValues ==
    enumGuard.called =>
        /\ enumGuard.res = Returns(enumGuard.input \in DeclaredValues)
        /\ enumGuard.input \in DeclaredKeyNames \ DeclaredValues =>
              enumGuard.res.res = "false"

C16_Witness ==
    /\ enumGuard.called
    /\ enumGuard.declared = Color
    /\ enumGuard.enumObject = Obj(<<"Green">>, <<Str("green")>>)
    /\ enumGuard.input = Str("red")
    /\ enumGuard.res.res = "true"

----------------------------------------------------------------------------
(* Properties of the StrictTypeGuardBuilder *)

\* The keys the validateProperty and ignoreProperty calls of a chain address.
AddressedBy(c) ==
    UNION {c[i].TProperty : i \in {j \in 1..Len(c) : c[j].op \in {"validateProperty", "ignoreProperty"}}}

\* The chain calls validateRoot.
CallsValidateRoot(c) == \E i \in 1..Len(c) : c[i].op = "validateRoot"

\* C6: build yields the guard producer if and only if every key of the schema
\* has been addressed by validateProperty or ignoreProperty along the chain or
\* validateRoot has been called; otherwise it yields the refusal naming
\* exactly the unaddressed keys, and no guard is obtained. The addressed set
\* only grows along a chain.
C6_BuildAvailableIffAddressed ==
    /\ [](LET result == ValidatedBuildResult(SchemaKeys, TValidated)
          IN /\ result.callable <=>
                   (SchemaKeys \subseteq AddressedBy(chain) \/ CallsValidateRoot(chain))
             /\ ~result.callable => result.missing = SchemaKeys \ AddressedBy(chain)
             /\ ev.guard = "strict.build()" => result.callable)
    /\ [][TValidated \subseteq TValidated']_vars

C6_Witness ==
    /\ Len(chain) = 2
    /\ chain[1].op = "validateProperty"
    /\ chain[2].op = "ignoreProperty"
    /\ AddressedBy(chain) = {"b"}
    /\ ValidatedBuildResult(SchemaKeys, TValidated) = [callable |-> FALSE, missing |-> {"a"}]

\* The TypeGuardBuilder the calls of a chain leave when they are made on it.
RECURSIVE Replay(_, _)
Replay(c, n) ==
    IF n = 0 THEN NewTypeGuardBuilder
    ELSE LET b == Replay(c, n - 1)
             call == c[n]
         IN CASE call.op = "validateRoot" -> validateRoot(b, call.predicate)
              [] call.op = "validateProperty" -> validateProperty(b, call.property, call.predicate)
              [] call.op = "ignoreProperty" -> ignoreProperty(b, call.property)
              [] call.op = "suppressMissingValidatorWarnings" ->
                   suppressMissingValidatorWarnings(b, call.properties)

\* C7: the guard a StrictTypeGuardBuilder builds returns the same boolean and
\* emits the same diagnostics, for every input, as the guard a
\* TypeGuardBuilder builds after the same sequence of calls.
C7_StrictGuardEqualsPermissiveGuard ==
    ev.guard = "strict.build()" =>
        LET permissive == buildTypeGuard(Replay(chain, Len(chain)), LogValueReceived, ev.input)
        IN /\ ev.run.res = permissive.res
           /\ ev.run.diags = permissive.diags

C7_Witness ==
    /\ ev.guard = "strict.build()"
    /\ Len(chain) = 2
    /\ chain[2].op = "suppressMissingValidatorWarnings"
    /\ ev.input = Obj(<<"x", "a">>, <<Num("1"), Num("1")>>)
    /\ ev.run.res = "false"
    /\ Len(ev.run.diags) = 1

----------------------------------------------------------------------------
(* Properties of a builder held by several variables *)

====
